---- MODULE Spec2Model ----
(***************************************************************************)
(* grelmicro: the PostgreSQL lock backend, the backend registry and the    *)
(* circuit breaker, modelled as state machines.                            *)
(*                                                                         *)
(*   LockSpec      one PostgresLockBackend instance against its table:     *)
(*                 __aenter__/__aexit__, acquire, release, locked, owned   *)
(*                 and the passage of server time (NOW()).                 *)
(*   RegistrySpec  construction of backends and get_lock_backend().        *)
(*   CBSpec        one CircuitBreaker instance: guard entry and exit,      *)
(*                 state reads, reset, force_*, and monotonic time.        *)
(***************************************************************************)
EXTENDS Integers, FiniteSets, Sequences, TLC

\* ------------------------------------------------------------------ bounds
MaxTime == 3
MaxDuration == 2
MaxMonotonic == 2
MaxActiveCalls == 2
MaxCount == 2
MaxLeTime == 6

Names == {"n1", "n2"}
Tokens == {"A", "B"}
Backends == {"b1", "b2"}
LockBackend == "b1"
Durations == 0..MaxDuration

NoToken == "-"
NoName == "-"
NoBackend == "-"
NoRow == [token |-> NoToken, expire_at |-> -1]

VARIABLES
    now,              \* server time, the value of NOW()
    table,            \* the locks table: name -> row, NoRow when there is none
    constructed,      \* the backend instances that exist
    pool,             \* self._pool of each backend: "None", "open", "closed"
    loaded_backends,  \* loaded_backends["lock"], NoBackend when the key is absent
    leases,           \* history: <<name, token, deadline>> granted and not yet over
    ever_acquired,    \* history: the names some acquire has returned true for
    auto_registered,  \* history: the instances constructed with auto_register
    last_registered,  \* history: the latest instance constructed with auto_register
    last              \* the latest call: its arguments, its result, the row it found

lockVars == <<now, table, constructed, pool, loaded_backends, leases,
              ever_acquired, auto_registered, last_registered, last>>

\* The circuit breaker instance, the monotonic clock and what the calls did.
VARIABLES
    cb,                     \* the CircuitBreaker instance: configuration and fields
    monotonic,              \* time.monotonic()
    cb_last,                \* the latest operation, its result, the state it found
    error_run,              \* history: error exits in CLOSED since the last success
    error_run_since_clear,  \* history: the same, since the last clearing as well
    success_run,            \* history: success exits in HALF_OPEN since it was entered
    probe_error_run,        \* history: error exits in HALF_OPEN since the last success
    prev_runs,              \* history: the three runs before the latest operation
    in_flight               \* history: entries granted whose block has not yet ended

cbVars == <<cb, monotonic, cb_last, error_run, error_run_since_clear, success_run,
            probe_error_run, prev_runs, in_flight>>

\* The registry of circuit breakers and what the constructor calls did.
VARIABLES
    instances,  \* CircuitBreakerRegistry._instances: name -> instance, a dict
    created,    \* the number of instances constructed so far: the next identity
    first,      \* history: name -> the instance as the first call for it made it
    reg_last    \* the latest constructor call: arguments, result, the dict before

regVars == <<instances, created, first, reg_last>>

\* Two LeaderElection instances on one name and one MemoryBackend.
VARIABLES
    le_now,      \* the clock the MemoryBackend compares deadlines with
    le_record,   \* the MemoryBackend's record for the name, NoRow when absent
    le_config,   \* lease, renew_interval and retry_interval of the instances
    node,        \* per instance: running or cancelled, is_leader, next wake-up
    cancelled_at,\* history: when the leader's task was cancelled, -1 before
    le_last      \* the latest step: instance, what it did, how it went

leVars == <<le_now, le_record, le_config, node, cancelled_at, le_last>>

notLock == <<cbVars, regVars, leVars>>
notBreaker == <<lockVars, regVars, leVars>>
notBreakerRegistry == <<lockVars, cbVars, leVars>>
notLeader == <<lockVars, cbVars, regVars>>

vars == <<lockVars, cbVars, regVars, leVars>>

Call(op, b, n, t, d, r, row, auto) ==
    [op |-> op, backend |-> b, name |-> n, token |-> t, duration |-> d,
     result |-> r, before |-> row, auto_register |-> auto]

NoCall == Call("none", NoBackend, NoName, NoToken, 0, "-", NoRow, FALSE)

\* ------------------------------------------------- the SQL statements
\* INSERT ... VALUES ($1, $2, NOW() + make_interval(secs => $3))
ExcludedRow(token, duration, t) == [token |-> token, expire_at |-> t + duration]

\* ON CONFLICT (name) DO UPDATE ... WHERE table.token = EXCLUDED.token
\*                                     OR table.expire_at < NOW()
AcquireWhereStolen(row, token, t) == TRUE
AcquireWhereTokenOnly(row, token, t) == row.token = token
AcquireWhereExpiredOnly(row, token, t) == row.expire_at < t
AcquireWhereNotLater(row, token, t) == row.token = token \/ row.expire_at <= t
AcquireWhere(row, token, t) == row.token = token \/ row.expire_at < t

\* SET token = EXCLUDED.token, expire_at = EXCLUDED.expire_at
AcquireSetAdding(row, token, duration, t) ==
    [token |-> token, expire_at |-> row.expire_at + duration]
AcquireSet(row, token, duration, t) == ExcludedRow(token, duration, t)

\* The statement as a whole: the table it leaves and whether RETURNING yields a row.
SQL_ACQUIRE_OR_EXTEND(tbl, name, token, duration, t) ==
    IF tbl[name] = NoRow
        THEN [table |-> [tbl EXCEPT ![name] = ExcludedRow(token, duration, t)],
              returning |-> TRUE]
    ELSE IF AcquireWhere(tbl[name], token, t)
        THEN [table |-> [tbl EXCEPT ![name] = AcquireSet(tbl[name], token, duration, t)],
              returning |-> TRUE]
    ELSE [table |-> tbl, returning |-> FALSE]

\* DELETE ... WHERE name = $1 AND token = $2 AND expire_at >= NOW() RETURNING 1
ReleaseWhereAnyToken(row, token, t) == row # NoRow /\ row.expire_at >= t
ReleaseWhereAnyTime(row, token, t) == row # NoRow /\ row.token = token
ReleaseWhere(row, token, t) ==
    row # NoRow /\ row.token = token /\ row.expire_at >= t

SQL_RELEASE(tbl, name, token, t) ==
    IF ReleaseWhere(tbl[name], token, t)
        THEN [table |-> [tbl EXCEPT ![name] = NoRow], returning |-> TRUE]
        ELSE [table |-> tbl, returning |-> FALSE]

\* DELETE ... WHERE expire_at < NOW()
SQL_RELEASE_ALL_EXPIRED(tbl, t) ==
    [n \in Names |->
        IF tbl[n] # NoRow /\ tbl[n].expire_at < t THEN NoRow ELSE tbl[n]]

\* SELECT 1 ... WHERE name = $1 AND expire_at >= NOW()
LockedIgnoringExpiry(tbl, name, t) == tbl[name] # NoRow
LockedStrictlyLater(tbl, name, t) == tbl[name] # NoRow /\ tbl[name].expire_at > t
SQL_LOCKED(tbl, name, t) == tbl[name] # NoRow /\ tbl[name].expire_at >= t

\* SELECT 1 ... WHERE name = $1 AND token = $2 AND expire_at >= NOW()
OwnedAnyToken(tbl, name, token, t) ==
    tbl[name] # NoRow /\ tbl[name].expire_at >= t
SQL_OWNED(tbl, name, token, t) ==
    tbl[name] # NoRow /\ tbl[name].token = token /\ tbl[name].expire_at >= t

\* bool(fetchval(...)): a returned row is 1, no row is None
Bool(returning) == IF returning THEN "true" ELSE "false"

\* `if not self._pool: raise OutOfContextError`
NeverOutOfContext(p) == FALSE
OutOfContext(p) == p = "None"

\* ------------------------------------------------- history of leases
LeasesAfterAcquire(ls, name, token, deadline) ==
    {l \in ls : ~(l[1] = name /\ l[2] = token)} \cup {<<name, token, deadline>>}

LeasesAfterRelease(ls, name, token) ==
    {l \in ls : ~(l[1] = name /\ l[2] = token)}

LeasesAt(ls, t) == {l \in ls : l[3] >= t}

\* ------------------------------------------------- the circuit breaker
States == {"CLOSED", "OPEN", "HALF_OPEN", "FORCED_OPEN", "FORCED_CLOSED"}
NoError == "None"
NoDuration == -1

\* CircuitBreaker.__init__ at monotonic time t
NewCircuitBreaker(error_threshold, success_threshold, reset_timeout, half_open_max_concurrency, consecutive_counts_clear_interval, t) ==
    [error_threshold |-> error_threshold,
     success_threshold |-> success_threshold,
     reset_timeout |-> reset_timeout,
     half_open_max_concurrency |-> half_open_max_concurrency,
     consecutive_counts_clear_interval |-> consecutive_counts_clear_interval,
     state |-> "CLOSED",
     consecutive_error_count |-> 0,
     consecutive_success_count |-> 0,
     total_error_count |-> 0,
     total_success_count |-> 0,
     last_error_info |-> NoError,
     open_until_time |-> 0,
     active_calls |-> 0,
     next_consecutive_counts_clear_time |->
        IF consecutive_counts_clear_interval > 0
            THEN t + consecutive_counts_clear_interval
            ELSE 0]

\* _do_transition_to_state
DoTransitionToState(c, new_state) == [c EXCEPT !.state = new_state]

\* clear_consecutive_counts, were it to zero the totals as well
ClearAllCounts(c, t) ==
    [c EXCEPT !.consecutive_error_count = 0,
              !.consecutive_success_count = 0,
              !.total_error_count = 0,
              !.total_success_count = 0,
              !.next_consecutive_counts_clear_time =
                    IF c.consecutive_counts_clear_interval > 0
                        THEN t + c.consecutive_counts_clear_interval
                        ELSE @]
\* clear_consecutive_counts
ClearConsecutiveCounts(c, t) ==
    [c EXCEPT !.consecutive_error_count = 0,
              !.consecutive_success_count = 0,
              !.next_consecutive_counts_clear_time =
                    IF c.consecutive_counts_clear_interval > 0
                        THEN t + c.consecutive_counts_clear_interval
                        ELSE @]

\* _transition_to_state
TransitionToState(c, new_state, t) ==
    LET previous_state == c.state
        d == DoTransitionToState(c, new_state)
    IN  IF new_state = "OPEN"
            THEN [d EXCEPT !.open_until_time = t + c.reset_timeout]
        ELSE IF new_state = "HALF_OPEN"
            THEN ClearConsecutiveCounts(d, t)
        ELSE IF new_state = "CLOSED" /\ previous_state = "HALF_OPEN"
            THEN ClearConsecutiveCounts(d, t)
        ELSE d

\* the test of _refresh_state in OPEN: monotonic() >= self._open_until_time
ResetTimeoutExpiredLate(c, t) == t > c.open_until_time
ResetTimeoutExpiredAlways(c, t) == TRUE
ResetTimeoutExpiredNever(c, t) == FALSE
ResetTimeoutExpired(c, t) == t >= c.open_until_time

\* the test of _refresh_state in CLOSED
ClearDueLate(c, t) ==
    /\ c.consecutive_counts_clear_interval > 0
    /\ c.next_consecutive_counts_clear_time < t
ClearDue(c, t) ==
    /\ c.consecutive_counts_clear_interval > 0
    /\ c.next_consecutive_counts_clear_time <= t

\* _refresh_state, were FORCED_OPEN to time out as OPEN does
RefreshStateForcedToo(c, t) ==
    IF c.state = "CLOSED"
        THEN IF ClearDue(c, t) THEN ClearConsecutiveCounts(c, t) ELSE c
    ELSE IF c.state \in {"OPEN", "FORCED_OPEN"}
        THEN IF ResetTimeoutExpired(c, t)
                THEN TransitionToState(c, "HALF_OPEN", t)
                ELSE c
    ELSE c
\* _refresh_state
RefreshState(c, t) ==
    IF c.state = "CLOSED"
        THEN IF ClearDue(c, t) THEN ClearConsecutiveCounts(c, t) ELSE c
    ELSE IF c.state = "OPEN"
        THEN IF ResetTimeoutExpired(c, t)
                THEN TransitionToState(c, "HALF_OPEN", t)
                ELSE c
    ELSE c

\* _is_call_permitted, were the HALF_OPEN limit inclusive
IsCallPermittedInclusive(c) ==
    IF c.state = "CLOSED" THEN TRUE
    ELSE IF c.state = "HALF_OPEN"
        THEN c.active_calls <= c.half_open_max_concurrency
    ELSE FALSE
\* _is_call_permitted
IsCallPermittedUnbounded(c) == c.state \in {"CLOSED", "HALF_OPEN"}
IsCallPermitted(c) ==
    IF c.state = "CLOSED" THEN TRUE
    ELSE IF c.state = "HALF_OPEN"
        THEN c.active_calls < c.half_open_max_concurrency
    ELSE FALSE

\* _on_error
OnErrorCounting(c, error, t) ==
    [c EXCEPT !.total_error_count = @ + 1,
              !.consecutive_success_count = 0,
              !.consecutive_error_count = @ + 1,
              !.last_error_info = error]
OnErrorReopening(c, error, t) ==
    LET d == [c EXCEPT !.total_error_count = @ + 1,
                       !.consecutive_success_count = 0,
                       !.consecutive_error_count = @ + 1,
                       !.last_error_info = error]
    IN  IF d.state \in {"HALF_OPEN", "OPEN"}
            THEN TransitionToState(d, "OPEN", t)
            ELSE d
OnError(c, error, t) ==
    LET d == [c EXCEPT !.total_error_count = @ + 1,
                       !.consecutive_success_count = 0,
                       !.consecutive_error_count = @ + 1,
                       !.last_error_info = error]
    IN  IF d.state = "HALF_OPEN" THEN TransitionToState(d, "OPEN", t) ELSE d

\* _on_success
OnSuccessKeepingErrors(c) ==
    [c EXCEPT !.total_success_count = @ + 1,
              !.consecutive_success_count = @ + 1]
OnSuccess(c) ==
    [c EXCEPT !.total_success_count = @ + 1,
              !.consecutive_error_count = 0,
              !.consecutive_success_count = @ + 1]

\* the thresholds of _after_call_check
ErrorThresholdPassed(c) == c.consecutive_error_count > c.error_threshold
ErrorThresholdReached(c) == c.consecutive_error_count >= c.error_threshold

SuccessThresholdPassed(c) == c.consecutive_success_count > c.success_threshold
SuccessThresholdReached(c) == c.consecutive_success_count >= c.success_threshold

\* _after_call_check, were it to look at CLOSED only
AfterCallCheckClosedOnly(c, t) ==
    IF c.state = "CLOSED" /\ ErrorThresholdReached(c)
        THEN TransitionToState(c, "OPEN", t)
        ELSE c
\* _after_call_check
AfterCallCheck(c, t) ==
    IF c.state = "CLOSED"
        THEN IF ErrorThresholdReached(c)
                THEN TransitionToState(c, "OPEN", t)
                ELSE c
    ELSE IF c.state = "HALF_OPEN"
        THEN IF SuccessThresholdReached(c)
                THEN TransitionToState(c, "CLOSED", t)
                ELSE c
    ELSE c

\* guard(), from the yield on, were its except clause to catch BaseException
GuardExitCatchingAll(c, outcome, t) ==
    LET d == IF outcome = "success" THEN OnSuccess(c)
             ELSE IF outcome \in {"error", "cancelled"}
                THEN OnError(c, "Exception", t)
             ELSE c
    IN  AfterCallCheck([d EXCEPT !.active_calls = @ - 1], t)

\* what guard() lets out of the block: both except clauses re-raise, and no
\* clause catches a BaseException such as the cancellation
GuardRaises(outcome) ==
    IF outcome = "success" THEN "None"
    ELSE IF outcome = "error" THEN "Exception"
    ELSE IF outcome = "ignored" THEN "ignored Exception"
    ELSE "CancelledError"

\* guard(), from the yield on, were the decrement in the else clause instead
\* of the finally clause
GuardExitLeaking(c, outcome, t) ==
    LET d == IF outcome = "success" THEN OnSuccess(c)
             ELSE IF outcome = "error" THEN OnError(c, "Exception", t)
             ELSE c
    IN  AfterCallCheck([d EXCEPT !.active_calls =
                            IF outcome = "success" THEN @ - 1 ELSE @], t)
\* guard(), from the yield on: the except/else clauses, then the finally clause
GuardExit(c, outcome, t) ==
    LET d == IF outcome = "success" THEN OnSuccess(c)
             ELSE IF outcome = "error" THEN OnError(c, "Exception", t)
             ELSE c
    IN  AfterCallCheck([d EXCEPT !.active_calls = @ - 1], t)

\* reset, were it to forget last_error_info
ResetKeepingLastError(c, t) ==
    ClearConsecutiveCounts(
        [DoTransitionToState(c, "CLOSED") EXCEPT !.total_error_count = 0,
                                                 !.total_success_count = 0,
                                                 !.open_until_time = 0],
        t)
\* reset
Reset(c, t) ==
    ClearConsecutiveCounts(
        [DoTransitionToState(c, "CLOSED") EXCEPT !.total_error_count = 0,
                                                 !.total_success_count = 0,
                                                 !.last_error_info = NoError,
                                                 !.open_until_time = 0],
        t)

\* force_open
ForceOpen(c, open_duration, t) ==
    ClearConsecutiveCounts(
        [DoTransitionToState(c, "FORCED_OPEN") EXCEPT !.open_until_time =
            t + (IF open_duration # NoDuration THEN open_duration
                                               ELSE c.reset_timeout)],
        t)

\* force_closed
ForceClosed(c, t) ==
    ClearConsecutiveCounts(DoTransitionToState(c, "FORCED_CLOSED"), t)

\* force_half_open, were it to keep the consecutive counts
ForceHalfOpenKeepingCounts(c, t) == DoTransitionToState(c, "HALF_OPEN")
\* force_half_open
ForceHalfOpen(c, t) ==
    ClearConsecutiveCounts(DoTransitionToState(c, "HALF_OPEN"), t)

Op(op, result, from) == [op |-> op, result |-> result, from |-> from]

\* The breaker while only the lock backend or the registry is exercised: the
\* instance CircuitBreaker(name) makes, untouched.
CBIdle ==
    /\ cb = NewCircuitBreaker(5, 2, 60, 1, 0, 0)
    /\ monotonic = 0
    /\ cb_last = Op("init", "-", "CLOSED")
    /\ error_run = 0
    /\ error_run_since_clear = 0
    /\ success_run = 0
    /\ probe_error_run = 0
    /\ prev_runs = [error_run |-> 0, success_run |-> 0,
                    error_run_since_clear |-> 0]
    /\ in_flight = 0

\* The registry of breakers while it is not exercised: the empty dict.
EmptyDict == [n \in {} |-> n]

RegIdle ==
    /\ instances = EmptyDict
    /\ created = 0
    /\ first = EmptyDict
    /\ reg_last = [op |-> "none"]

Nodes == {"node1", "node2"}
NoStep == [op |-> "none", node |-> "-", result |-> "-"]

\* The leader election while it is not exercised: no instance started.
LeIdle ==
    /\ le_now = 0
    /\ le_record = NoRow
    /\ le_config = [lease |-> 0, renew_interval |-> 0, retry_interval |-> 0]
    /\ node = [n \in Nodes |-> [status |-> "idle", attempted |-> FALSE,
                                 is_leader |-> FALSE, wake |-> 0,
                                 release |-> "-"]]
    /\ cancelled_at = -1
    /\ le_last = NoStep

\* The lock backend while only the breaker is exercised: nothing constructed.
LockIdle ==
    /\ now = 0
    /\ table = [n \in Names |-> NoRow]
    /\ constructed = {}
    /\ pool = [b \in Backends |-> "None"]
    /\ loaded_backends = NoBackend
    /\ leases = {}
    /\ ever_acquired = {}
    /\ auto_registered = {}
    /\ last_registered = NoBackend
    /\ last = NoCall

\* ------------------------------------------------- the lock backend
LockInit ==
    /\ now = 0
    /\ table = [n \in Names |-> NoRow]
    /\ constructed = {LockBackend}
    /\ pool = [b \in Backends |-> "None"]
    /\ loaded_backends = LockBackend
    /\ leases = {}
    /\ ever_acquired = {}
    /\ auto_registered = {LockBackend}
    /\ last_registered = LockBackend
    /\ last = NoCall
    /\ CBIdle
    /\ RegIdle
    /\ LeIdle

\* __aenter__: create_pool, then CREATE TABLE IF NOT EXISTS; either may raise.
aenter(b) ==
    /\ b \in constructed
    /\ \E outcome \in {"ok", "create_pool_failed", "create_table_failed"} :
        /\ pool' = IF outcome = "create_pool_failed"
                      THEN pool
                      ELSE [pool EXCEPT ![b] = "open"]
        /\ last' = Call("aenter", b, NoName, NoToken, 0, outcome, NoRow, FALSE)
    /\ UNCHANGED <<now, table, constructed, loaded_backends, leases,
                   ever_acquired, auto_registered, last_registered>>
    /\ UNCHANGED notLock

\* __aexit__: with a pool, sweep the expired rows and close it; the sweep may
\* raise, and on a closed pool it raises before anything is done.
aexit(b) ==
    /\ b \in constructed
    /\ \/ /\ pool[b] = "None"
          /\ last' = Call("aexit", b, NoName, NoToken, 0, "ok", NoRow, FALSE)
          /\ UNCHANGED <<table, pool>>
       \/ /\ pool[b] = "closed"
          /\ last' = Call("aexit", b, NoName, NoToken, 0, "InterfaceError", NoRow, FALSE)
          /\ UNCHANGED <<table, pool>>
       \/ /\ pool[b] = "open"
          /\ \/ /\ table' = SQL_RELEASE_ALL_EXPIRED(table, now)
                /\ pool' = [pool EXCEPT ![b] = "closed"]
                /\ last' = Call("aexit", b, NoName, NoToken, 0, "ok", NoRow, FALSE)
             \/ /\ last' = Call("aexit", b, NoName, NoToken, 0, "sweep_failed", NoRow, FALSE)
                /\ UNCHANGED <<table, pool>>
    /\ UNCHANGED <<now, constructed, loaded_backends, leases,
                   ever_acquired, auto_registered, last_registered>>
    /\ UNCHANGED notLock

acquire(b, name, token, duration) ==
    /\ b \in constructed
    /\ IF OutOfContext(pool[b])
          THEN /\ last' = Call("acquire", b, name, token, duration,
                               "OutOfContextError", table[name], FALSE)
               /\ UNCHANGED <<table, leases, ever_acquired>>
       ELSE IF pool[b] = "closed"
          THEN /\ last' = Call("acquire", b, name, token, duration,
                               "InterfaceError", table[name], FALSE)
               /\ UNCHANGED <<table, leases, ever_acquired>>
       ELSE LET r == SQL_ACQUIRE_OR_EXTEND(table, name, token, duration, now) IN
               /\ table' = r.table
               /\ last' = Call("acquire", b, name, token, duration,
                               Bool(r.returning), table[name], FALSE)
               /\ leases' = IF r.returning
                               THEN LeasesAfterAcquire(leases, name, token,
                                                       now + duration)
                               ELSE leases
               /\ ever_acquired' = IF r.returning
                                      THEN ever_acquired \cup {name}
                                      ELSE ever_acquired
    /\ UNCHANGED <<now, constructed, pool, loaded_backends,
                   auto_registered, last_registered>>
    /\ UNCHANGED notLock

release(b, name, token) ==
    /\ b \in constructed
    /\ IF OutOfContext(pool[b])
          THEN /\ last' = Call("release", b, name, token, 0,
                               "OutOfContextError", table[name], FALSE)
               /\ UNCHANGED <<table, leases>>
       ELSE IF pool[b] = "closed"
          THEN /\ last' = Call("release", b, name, token, 0,
                               "InterfaceError", table[name], FALSE)
               /\ UNCHANGED <<table, leases>>
       ELSE LET r == SQL_RELEASE(table, name, token, now) IN
               /\ table' = r.table
               /\ last' = Call("release", b, name, token, 0,
                               Bool(r.returning), table[name], FALSE)
               /\ leases' = IF r.returning
                               THEN LeasesAfterRelease(leases, name, token)
                               ELSE leases
    /\ UNCHANGED <<now, constructed, pool, loaded_backends, ever_acquired,
                   auto_registered, last_registered>>
    /\ UNCHANGED notLock

locked(b, name) ==
    /\ b \in constructed
    /\ last' = Call("locked", b, name, NoToken, 0,
                    IF OutOfContext(pool[b]) THEN "OutOfContextError"
                    ELSE IF pool[b] = "closed" THEN "InterfaceError"
                    ELSE Bool(SQL_LOCKED(table, name, now)),
                    table[name], FALSE)
    /\ UNCHANGED <<now, table, constructed, pool, loaded_backends, leases,
                   ever_acquired, auto_registered, last_registered>>
    /\ UNCHANGED notLock

owned(b, name, token) ==
    /\ b \in constructed
    /\ last' = Call("owned", b, name, token, 0,
                    IF OutOfContext(pool[b]) THEN "OutOfContextError"
                    ELSE IF pool[b] = "closed" THEN "InterfaceError"
                    ELSE Bool(SQL_OWNED(table, name, token, now)),
                    table[name], FALSE)
    /\ UNCHANGED <<now, table, constructed, pool, loaded_backends, leases,
                   ever_acquired, auto_registered, last_registered>>
    /\ UNCHANGED notLock

\* Server time passes; a lease whose deadline is behind NOW() is over.
Tick ==
    /\ now < MaxTime
    /\ now' = now + 1
    /\ leases' = LeasesAt(leases, now + 1)
    /\ last' = Call("tick", NoBackend, NoName, NoToken, 0, "-", NoRow, FALSE)
    /\ UNCHANGED <<table, constructed, pool, loaded_backends, ever_acquired,
                   auto_registered, last_registered>>
    /\ UNCHANGED notLock

LockNext ==
    \/ aenter(LockBackend)
    \/ aexit(LockBackend)
    \/ \E n \in Names, t \in Tokens, d \in Durations : acquire(LockBackend, n, t, d)
    \/ \E n \in Names, t \in Tokens : release(LockBackend, n, t)
    \/ \E n \in Names : locked(LockBackend, n)
    \/ \E n \in Names, t \in Tokens : owned(LockBackend, n, t)
    \/ Tick

LockSpec == LockInit /\ [][LockNext]_vars

\* ------------------------------------------------- the backend registry
RegistryInit == LockIdle /\ CBIdle /\ RegIdle /\ LeIdle

\* `if auto_register: loaded_backends["lock"] = self`
RegisterAlways(loaded, b, auto_register) == b
Register(loaded, b, auto_register) == IF auto_register THEN b ELSE loaded

\* PostgresLockBackend.__init__: a table name that is no identifier raises
\* ValueError before anything is stored.
init(b, auto_register, table_name_isidentifier) ==
    /\ b \notin constructed
    /\ IF ~table_name_isidentifier
          THEN /\ last' = Call("init", b, NoName, NoToken, 0, "ValueError",
                               NoRow, auto_register)
               /\ UNCHANGED <<constructed, pool, loaded_backends,
                              auto_registered, last_registered>>
          ELSE /\ constructed' = constructed \cup {b}
               /\ pool' = [pool EXCEPT ![b] = "None"]
               /\ loaded_backends' = Register(loaded_backends, b, auto_register)
               /\ auto_registered' = IF auto_register
                                        THEN auto_registered \cup {b}
                                        ELSE auto_registered
               /\ last_registered' = IF auto_register THEN b ELSE last_registered
               /\ last' = Call("init", b, NoName, NoToken, 0, "ok",
                               NoRow, auto_register)
    /\ UNCHANGED <<now, table, leases, ever_acquired>>
    /\ UNCHANGED notLock

\* get_lock_backend(): loaded_backends["lock"], KeyError -> BackendNotLoadedError
GetLockBackendNoCheck(loaded) == loaded
GetLockBackend(loaded) ==
    IF loaded = NoBackend THEN "BackendNotLoadedError" ELSE loaded

get_lock_backend ==
    /\ last' = Call("get_lock_backend", NoBackend, NoName, NoToken, 0,
                    GetLockBackend(loaded_backends), NoRow, FALSE)
    /\ UNCHANGED <<now, table, constructed, pool, loaded_backends, leases,
                   ever_acquired, auto_registered, last_registered>>
    /\ UNCHANGED notLock

RegistryNext ==
    \/ \E b \in Backends, a \in BOOLEAN, v \in BOOLEAN : init(b, a, v)
    \/ get_lock_backend
    \/ \E b \in Backends : aenter(b)
    \/ \E b \in Backends : aexit(b)
    \/ \E b \in Backends, n \in Names : locked(b, n)

RegistrySpec == RegistryInit /\ [][RegistryNext]_vars

\* ------------------------------------------------- the circuit breaker's operations
\* The configurations a breaker is constructed with, the durations force_open
\* is given and the ways a guarded block ends.
ErrorThresholds == {1, 2}
SuccessThresholds == {1, 2}
ResetTimeouts == {1}
Concurrencies == {1, 2}
ClearIntervals == {0, 1}
OpenDurations == {NoDuration, 0}
Outcomes == {"success", "error", "ignored", "cancelled"}
Exits == {"exit_" \o outcome : outcome \in Outcomes}

CBInit ==
    /\ monotonic = 0
    /\ \E k \in ErrorThresholds, m \in SuccessThresholds, r \in ResetTimeouts,
          h \in Concurrencies, i \in ClearIntervals :
            cb = NewCircuitBreaker(k, m, r, h, i, 0)
    /\ cb_last = Op("init", "-", "CLOSED")
    /\ error_run = 0
    /\ error_run_since_clear = 0
    /\ success_run = 0
    /\ probe_error_run = 0
    /\ prev_runs = [error_run |-> 0, success_run |-> 0,
                    error_run_since_clear |-> 0]
    /\ in_flight = 0
    /\ LockIdle
    /\ RegIdle
    /\ LeIdle

\* The histories after operation op took the breaker from c to d: the runs of
\* exits the claims count, kept apart from the breaker's own counters.
Runs(op, c, d, cleared) ==
    /\ error_run' =
        IF op = "exit_error" /\ c.state = "CLOSED" THEN error_run + 1
        ELSE IF d.state # "CLOSED" \/ c.state # "CLOSED"
                \/ op \notin {"guard", "current_state", "tick",
                              "exit_ignored", "exit_cancelled"}
            THEN 0
        ELSE error_run
    /\ error_run_since_clear' =
        IF op = "exit_error" /\ c.state = "CLOSED" THEN error_run_since_clear + 1
        ELSE IF d.state # "CLOSED" \/ c.state # "CLOSED" \/ cleared
                \/ op \notin {"guard", "current_state", "tick",
                              "exit_ignored", "exit_cancelled"}
            THEN 0
        ELSE error_run_since_clear
    /\ success_run' =
        IF op = "exit_success" /\ c.state = "HALF_OPEN" THEN success_run + 1
        ELSE IF d.state # "HALF_OPEN" \/ c.state # "HALF_OPEN"
                \/ op \notin {"guard", "current_state", "tick",
                              "exit_ignored", "exit_cancelled"}
            THEN 0
        ELSE success_run
    /\ probe_error_run' =
        IF op = "exit_error" /\ c.state = "HALF_OPEN" THEN probe_error_run + 1
        ELSE IF d.state # "HALF_OPEN" \/ c.state # "HALF_OPEN"
                \/ op \notin {"guard", "current_state", "tick",
                              "exit_ignored", "exit_cancelled"}
            THEN 0
        ELSE probe_error_run
    /\ prev_runs' = [error_run |-> error_run, success_run |-> success_run,
                     error_run_since_clear |-> error_run_since_clear]
    /\ in_flight' =
        IF op = "guard" /\ cb_last'.result = "admitted" THEN in_flight + 1
        ELSE IF op \in Exits THEN in_flight - 1
        ELSE in_flight

\* guard(), up to the yield: refresh, permission, active-call booking
guard ==
    LET c == RefreshState(cb, monotonic) IN
    /\ IsCallPermitted(c) => c.active_calls < MaxActiveCalls
    /\ cb' = IF IsCallPermitted(c)
                THEN [c EXCEPT !.active_calls = @ + 1]
                ELSE c
    /\ cb_last' = Op("guard",
                     IF IsCallPermitted(c) THEN "admitted" ELSE "CircuitBreakerError",
                     cb.state)
    /\ Runs("guard", cb, cb', cb.state = "CLOSED" /\ ClearDue(cb, monotonic))
    /\ UNCHANGED monotonic
    /\ UNCHANGED notBreaker

\* guard(), from the yield on, for one of the calls in flight
exit(outcome) ==
    /\ cb.active_calls > 0
    /\ outcome = "success" => cb.total_success_count < MaxCount
    /\ outcome = "error" => cb.total_error_count < MaxCount
    /\ cb' = GuardExit(cb, outcome, monotonic)
    /\ cb_last' = Op("exit_" \o outcome, GuardRaises(outcome), cb.state)
    /\ Runs("exit_" \o outcome, cb, cb', FALSE)
    /\ UNCHANGED monotonic
    /\ UNCHANGED notBreaker

\* the current_state property, which statistics() reads before its snapshot
current_state ==
    /\ cb' = RefreshState(cb, monotonic)
    /\ cb_last' = Op("current_state", cb'.state, cb.state)
    /\ Runs("current_state", cb, cb', cb.state = "CLOSED" /\ ClearDue(cb, monotonic))
    /\ UNCHANGED monotonic
    /\ UNCHANGED notBreaker

reset ==
    /\ cb' = Reset(cb, monotonic)
    /\ cb_last' = Op("reset", "-", cb.state)
    /\ Runs("reset", cb, cb', TRUE)
    /\ UNCHANGED monotonic
    /\ UNCHANGED notBreaker

force_open(open_duration) ==
    /\ cb' = ForceOpen(cb, open_duration, monotonic)
    /\ cb_last' = Op("force_open", "-", cb.state)
    /\ Runs("force_open", cb, cb', TRUE)
    /\ UNCHANGED monotonic
    /\ UNCHANGED notBreaker

force_closed ==
    /\ cb' = ForceClosed(cb, monotonic)
    /\ cb_last' = Op("force_closed", "-", cb.state)
    /\ Runs("force_closed", cb, cb', TRUE)
    /\ UNCHANGED monotonic
    /\ UNCHANGED notBreaker

force_half_open ==
    /\ cb' = ForceHalfOpen(cb, monotonic)
    /\ cb_last' = Op("force_half_open", "-", cb.state)
    /\ Runs("force_half_open", cb, cb', TRUE)
    /\ UNCHANGED monotonic
    /\ UNCHANGED notBreaker

clear_consecutive_counts ==
    /\ cb' = ClearConsecutiveCounts(cb, monotonic)
    /\ cb_last' = Op("clear_consecutive_counts", "-", cb.state)
    /\ Runs("clear_consecutive_counts", cb, cb', TRUE)
    /\ UNCHANGED monotonic
    /\ UNCHANGED notBreaker

\* monotonic time passes
CBTick ==
    /\ monotonic < MaxMonotonic
    /\ monotonic' = monotonic + 1
    /\ cb_last' = Op("tick", "-", cb.state)
    /\ Runs("tick", cb, cb, FALSE)
    /\ UNCHANGED cb
    /\ UNCHANGED notBreaker

CBNext ==
    \/ guard
    \/ \E outcome \in Outcomes : exit(outcome)
    \/ current_state
    \/ reset
    \/ \E d \in OpenDurations : force_open(d)
    \/ force_closed
    \/ force_half_open
    \/ clear_consecutive_counts
    \/ CBTick

CBSpec == CBInit /\ [][CBNext]_vars

\* ------------------------------------------------- the breaker left to recover
\* The breaker with no explicit request made of it: entries, exits with
\* success or a counted error, state reads and the clock. The clock runs past
\* MaxMonotonic for as long as an OPEN breaker waits for its deadline, and a
\* success exit is counted past MaxCount while the breaker is probing.
recovering_exit(outcome) ==
    /\ cb.active_calls > 0
    /\ outcome = "success"
        => cb.total_success_count < MaxCount \/ cb.state = "HALF_OPEN"
    /\ outcome = "error" => cb.total_error_count < MaxCount
    /\ cb' = GuardExit(cb, outcome, monotonic)
    /\ cb_last' = Op("exit_" \o outcome, GuardRaises(outcome), cb.state)
    /\ Runs("exit_" \o outcome, cb, cb', FALSE)
    /\ UNCHANGED monotonic
    /\ UNCHANGED notBreaker

RecoveryTick ==
    /\ \/ monotonic < MaxMonotonic
       \/ cb.state = "OPEN" /\ monotonic < cb.open_until_time
    /\ monotonic' = monotonic + 1
    /\ cb_last' = Op("tick", "-", cb.state)
    /\ Runs("tick", cb, cb, FALSE)
    /\ UNCHANGED cb
    /\ UNCHANGED notBreaker

RecoveryNext ==
    \/ guard
    \/ \E outcome \in {"success", "error"} : recovering_exit(outcome)
    \/ current_state
    \/ RecoveryTick

\* Time keeps advancing, entries keep being attempted and every call admitted
\* ends; the error exits are at most MaxCount, so from some point on every
\* call that ends ends with success.
RecoverySpec ==
    /\ CBInit
    /\ [][RecoveryNext]_vars
    /\ WF_vars(guard)
    /\ WF_vars(recovering_exit("success"))
    /\ WF_vars(RecoveryTick)

\* ------------------------------------------------- the registry of circuit breakers
CBNames == {"cb1", "cb2"}
Kwargs == [error_threshold : ErrorThresholds, success_threshold : SuccessThresholds]
RegOutcomes == {"success", "error"}

\* CircuitBreakerRegistry.get(name) is not None
Registered(insts, name) == name \in DOMAIN insts

\* CircuitBreakerRegistry.register
RegistryRegister(insts, instance) ==
    [n \in DOMAIN insts \cup {instance.name} |->
        IF n = instance.name THEN instance ELSE insts[n]]

\* type.__call__(cls, name, **kwargs): a new object, then CircuitBreaker.__init__
\* with the keyword arguments given and the defaults for the others
Construct(name, kwargs, id, t) ==
    [name |-> name,
     id |-> id,
     cb |-> NewCircuitBreaker(kwargs.error_threshold, kwargs.success_threshold,
                              60, 1, 0, t)]

\* _CircuitBreakerMeta.__call__, were it to construct and register every time
MetaCallReplacing(insts, name, kwargs, id, t) ==
    [instances |-> RegistryRegister(insts, Construct(name, kwargs, id, t)),
     returned |-> Construct(name, kwargs, id, t)]

\* _CircuitBreakerMeta.__call__: the dict afterwards and the instance returned
MetaCall(insts, name, kwargs, id, t) ==
    IF Registered(insts, name)
        THEN [instances |-> insts, returned |-> insts[name]]
        ELSE [instances |-> RegistryRegister(insts, Construct(name, kwargs, id, t)),
              returned |-> Construct(name, kwargs, id, t)]

BreakerRegistryInit == LockIdle /\ CBIdle /\ RegIdle /\ LeIdle

\* CircuitBreaker(name, **kwargs)
construct(name, kwargs) ==
    LET r == MetaCall(instances, name, kwargs, created + 1, monotonic) IN
    /\ instances' = r.instances
    /\ created' = IF Registered(instances, name) THEN created ELSE created + 1
    /\ first' = IF name \in DOMAIN first
                    THEN first
                    ELSE [n \in DOMAIN first \cup {name} |->
                            IF n = name THEN r.returned ELSE first[n]]
    /\ reg_last' = [op |-> "construct", name |-> name, kwargs |-> kwargs,
                    returned |-> r.returned, before |-> instances]
    /\ UNCHANGED notBreakerRegistry

\* async with CircuitBreaker(name).guard(): ..., from entry to exit, on a stored
\* instance: refusal, or the block run to its end
instance_call(name, outcome) ==
    /\ Registered(instances, name)
    /\ outcome = "success" => instances[name].cb.total_success_count < MaxCount
    /\ outcome = "error" => instances[name].cb.total_error_count < MaxCount
    /\ LET c == RefreshState(instances[name].cb, monotonic) IN
        /\ instances' = [instances EXCEPT ![name].cb =
                IF IsCallPermitted(c)
                    THEN GuardExit([c EXCEPT !.active_calls = @ + 1],
                                   outcome, monotonic)
                    ELSE c]
        /\ reg_last' = [op |-> "call", name |-> name,
                        result |-> IF IsCallPermitted(c)
                                      THEN outcome
                                      ELSE "CircuitBreakerError"]
    /\ UNCHANGED <<created, first>>
    /\ UNCHANGED notBreakerRegistry

BreakerRegistryNext ==
    \/ \E name \in CBNames, kwargs \in Kwargs : construct(name, kwargs)
    \/ \E name \in CBNames, outcome \in RegOutcomes : instance_call(name, outcome)

BreakerRegistrySpec == BreakerRegistryInit /\ [][BreakerRegistryNext]_vars

\* ------------------------------------------------- the leader election
\* The MemoryBackend: a record is live at t while t is before its deadline.
\* acquire takes the name when the record is absent, expired or held by the
\* same token, and sets the deadline to t + duration.
MemAcquireStealing(row, token, duration, t) ==
    [row |-> [token |-> token, expire_at |-> t + duration], result |-> TRUE]

MemAcquireNeverExpiring(row, token, duration, t) ==
    IF row = NoRow \/ row.token = token
        THEN [row |-> [token |-> token, expire_at |-> t + duration],
              result |-> TRUE]
        ELSE [row |-> row, result |-> FALSE]

MemAcquire(row, token, duration, t) ==
    IF row = NoRow \/ row.expire_at <= t \/ row.token = token
        THEN [row |-> [token |-> token, expire_at |-> t + duration],
              result |-> TRUE]
        ELSE [row |-> row, result |-> FALSE]

\* release deletes the record iff it is live and held by the token
MemRelease(row, token, t) ==
    IF row # NoRow /\ row.expire_at > t /\ row.token = token
        THEN [row |-> NoRow, result |-> TRUE]
        ELSE [row |-> row, result |-> FALSE]

\* lease, renew_interval < lease / 2, retry_interval
LeConfigs ==
    {[lease |-> 3, renew_interval |-> 1, retry_interval |-> 1],
     [lease |-> 3, renew_interval |-> 1, retry_interval |-> 2]}
StartTimes == {0, 1}

LeaderInit ==
    /\ le_now = 0
    /\ le_record = NoRow
    /\ le_config \in LeConfigs
    /\ \E start \in [Nodes -> StartTimes] :
        node = [n \in Nodes |-> [status |-> "running", attempted |-> FALSE,
                                 is_leader |-> FALSE, wake |-> start[n],
                                 release |-> "-"]]
    /\ cancelled_at = -1
    /\ le_last = NoStep
    /\ LockIdle
    /\ CBIdle
    /\ RegIdle

\* One turn of the loop of an instance whose sleep is over: attempt the
\* acquire, set is_leader, sleep renew_interval or retry_interval.
attempt(n) ==
    /\ node[n].status = "running"
    /\ node[n].wake = le_now
    /\ LET r == MemAcquire(le_record, n, le_config.lease, le_now) IN
        /\ le_record' = r.row
        /\ node' = [node EXCEPT ![n] =
                [@ EXCEPT !.attempted = TRUE,
                          !.is_leader = r.result,
                          !.wake = le_now + IF r.result
                                              THEN le_config.renew_interval
                                              ELSE le_config.retry_interval]]
        /\ le_last' = [op |-> "attempt", node |-> n, result |-> r.result]
    /\ UNCHANGED <<le_now, le_config, cancelled_at>>
    /\ UNCHANGED notLeader

\* The leader's task is cancelled in its sleep: one best-effort release, which
\* goes through or fails and is ignored; the instance runs no more.
cancel(n, release_outcome) ==
    /\ node[n].status = "running"
    /\ node[n].is_leader
    /\ cancelled_at = -1
    /\ le_record' = IF release_outcome = "released"
                        THEN MemRelease(le_record, n, le_now).row
                        ELSE le_record
    /\ node' = [node EXCEPT ![n] = [@ EXCEPT !.status = "cancelled",
                                            !.release = release_outcome]]
    /\ cancelled_at' = le_now
    /\ le_last' = [op |-> "cancel", node |-> n, result |-> release_outcome]
    /\ UNCHANGED <<le_now, le_config>>
    /\ UNCHANGED notLeader

\* Time passes, never past the end of a running instance's sleep.
LeTick ==
    /\ le_now < MaxLeTime
    /\ \A n \in Nodes : node[n].status = "running" => node[n].wake > le_now
    /\ le_now' = le_now + 1
    /\ le_last' = [op |-> "tick", node |-> "-", result |-> "-"]
    /\ UNCHANGED <<le_record, le_config, node, cancelled_at>>
    /\ UNCHANGED notLeader

LeaderNext ==
    \/ \E n \in Nodes : attempt(n)
    \/ \E n \in Nodes, release_outcome \in {"released", "failed"} :
            cancel(n, release_outcome)
    \/ LeTick

LeaderSpec == LeaderInit /\ [][LeaderNext]_vars

\* ------------------------------------------------- claims about the lock backend
\* A stored record is live at t while its deadline is not behind t.
Live(row, t) == row # NoRow /\ row.expire_at >= t

Expired(row, t) == row # NoRow /\ row.expire_at < t

\* The latest call ran its statement (the backend was inside its lifecycle).
Executed(op) == last.op = op /\ last.result \in {"true", "false"}

Owners(n) == {t \in Tokens : SQL_OWNED(table, n, t, now)}

\* C1: mutual exclusion. An acquire by a token other than the holder of a live
\* record returns false and leaves the record as it was; no two tokens hold an
\* unfinished lease on one name, every unfinished lease is owned by its token,
\* and at no instant do two tokens both satisfy owned(name, token).
C1_MutualExclusion ==
    /\ (Executed("acquire") /\ Live(last.before, now)
            /\ last.before.token # last.token)
        => (last.result = "false" /\ table[last.name] = last.before)
    /\ \A l1, l2 \in leases : l1[1] = l2[1] => l1[2] = l2[2]
    /\ \A l \in leases : SQL_OWNED(table, l[1], l[2], now)
    /\ \A n \in Names : Cardinality(Owners(n)) <= 1

C1_Witness ==
    /\ Executed("acquire")
    /\ Live(last.before, now)
    /\ last.before.token # last.token
    /\ last.result = "false"
    /\ Owners(last.name) = {last.before.token}

\* C2: reentrant extension. An acquire by the holder of a live record returns
\* true, keeps the token and sets the deadline to now + duration.
C2_ReentrantExtension ==
    (Executed("acquire") /\ Live(last.before, now)
            /\ last.before.token = last.token)
        => /\ last.result = "true"
           /\ table[last.name] =
                [token |-> last.token, expire_at |-> now + last.duration]

C2_Witness ==
    /\ Executed("acquire")
    /\ Live(last.before, now)
    /\ last.before.token = last.token
    /\ last.before.expire_at > now
    /\ last.duration > 0
    /\ table[last.name].expire_at = now + last.duration
    /\ table[last.name].expire_at # last.before.expire_at + last.duration

\* C3: expiry takeover. A record whose deadline is behind now is not locked;
\* an acquire by another token then returns true, after which the new token
\* owns the name and the former holder does not.
C3_ExpiryTakeover ==
    /\ \A n \in Names : Expired(table[n], now) => ~SQL_LOCKED(table, n, now)
    /\ (Executed("locked") /\ Expired(last.before, now)) => last.result = "false"
    /\ (Executed("acquire") /\ Expired(last.before, now)
            /\ last.before.token # last.token)
        => /\ last.result = "true"
           /\ SQL_OWNED(table, last.name, last.token, now)
           /\ ~SQL_OWNED(table, last.name, last.before.token, now)

C3_Witness ==
    /\ Executed("acquire")
    /\ Expired(last.before, now)
    /\ last.before.token # last.token
    /\ last.result = "true"
    /\ Owners(last.name) = {last.token}

\* C4: release returns true exactly when a live record held by the token
\* exists and then deletes it (the name is no longer locked, and a second
\* release would return false); otherwise it returns false and the stored
\* record is unchanged.
C4_Release ==
    Executed("release") =>
        IF Live(last.before, now) /\ last.before.token = last.token
            THEN /\ last.result = "true"
                 /\ table[last.name] = NoRow
                 /\ ~SQL_LOCKED(table, last.name, now)
                 /\ ~SQL_RELEASE(table, last.name, last.token, now).returning
            ELSE /\ last.result = "false"
                 /\ table[last.name] = last.before

C4_Witness ==
    /\ Executed("release")
    /\ Live(last.before, now)
    /\ last.before.token = last.token
    /\ last.result = "true"
    /\ table[last.name] = NoRow

\* C5: right after an acquire with a positive duration returns true, the token
\* owns the name, the name is locked and no other token owns it; a name that
\* was never acquired is neither locked nor owned.
C5_AcquiredIsOwnedAndLocked ==
    /\ (Executed("acquire") /\ last.result = "true" /\ last.duration > 0)
        => /\ SQL_OWNED(table, last.name, last.token, now)
           /\ SQL_LOCKED(table, last.name, now)
           /\ \A o \in Tokens \ {last.token} :
                ~SQL_OWNED(table, last.name, o, now)
    /\ \A n \in Names \ ever_acquired :
        /\ ~SQL_LOCKED(table, n, now)
        /\ \A t \in Tokens : ~SQL_OWNED(table, n, t, now)
    /\ ((Executed("locked") \/ Executed("owned"))
            /\ last.name \notin ever_acquired)
        => last.result = "false"

C5_Witness ==
    /\ Executed("acquire")
    /\ last.result = "true"
    /\ last.duration > 0
    /\ Owners(last.name) = {last.token}
    /\ Names \ ever_acquired # {}

\* C6: acquire, release, locked and owned on a backend that has not entered
\* its lifecycle (no pool yet) signal OutOfContextError and touch no row.
C6_OutOfContext ==
    (last.op \in {"acquire", "release", "locked", "owned"}
            /\ pool[last.backend] = "None")
        => /\ last.result = "OutOfContextError"
           /\ table[last.name] = last.before
           /\ table = [n \in Names |-> NoRow]

C6_Witness ==
    /\ last.op = "acquire"
    /\ pool[last.backend] = "None"
    /\ last.result = "OutOfContextError"

\* C7: after a backend is constructed with auto_register, get_lock_backend()
\* returns that instance; while no backend was constructed with auto_register
\* it signals BackendNotLoadedError.
C7_Registry ==
    /\ (last.op = "init" /\ last.result = "ok" /\ last.auto_register)
        => GetLockBackend(loaded_backends) = last.backend
    /\ auto_registered = {}
        => GetLockBackend(loaded_backends) = "BackendNotLoadedError"
    /\ last.op = "get_lock_backend"
        => last.result = IF auto_registered = {}
                            THEN "BackendNotLoadedError"
                            ELSE last_registered

C7_Witness ==
    /\ last.op = "get_lock_backend"
    /\ last.result = last_registered
    /\ last.result \in Backends
    /\ constructed \ auto_registered # {}

\* ------------------------------------------------- claims about the circuit breaker
Refreshes == {"guard", "current_state"}

\* C8 as claimed: in CLOSED the breaker opens at the exit of the k-th error
\* exit in a row (k = error_threshold) and not earlier, and a success exit
\* leaves it CLOSED.
C8_OpensAtKthConsecutiveError ==
    /\ error_run >= cb.error_threshold => cb.state = "OPEN"
    /\ (0 < error_run /\ error_run < cb.error_threshold) => cb.state = "CLOSED"
    /\ (cb_last.op = "exit_success" /\ cb_last.from = "CLOSED")
        => cb.state = "CLOSED"

\* C8 as amended: in CLOSED the breaker opens at the exit of the k-th error
\* exit in a row counted since the last success exit or periodic clearing of
\* the consecutive counts, and not earlier; a success exit leaves it CLOSED.
\* Without periodic clearing (consecutive_counts_clear_interval <= 0) that is
\* the k-th error exit in a row, as claimed.
C8_OpensAtKthErrorSinceClear ==
    /\ error_run_since_clear >= cb.error_threshold => cb.state = "OPEN"
    /\ (0 < error_run_since_clear /\ error_run_since_clear < cb.error_threshold)
        => cb.state = "CLOSED"
    /\ (cb_last.op = "exit_success" /\ cb_last.from = "CLOSED")
        => cb.state = "CLOSED"
    /\ cb.consecutive_counts_clear_interval <= 0
        => C8_OpensAtKthConsecutiveError

C8_Witness ==
    /\ cb_last.op = "exit_error"
    /\ cb_last.from = "CLOSED"
    /\ cb.state = "OPEN"
    /\ cb.error_threshold = 2
    /\ error_run_since_clear = 2
    /\ cb.consecutive_counts_clear_interval > 0

\* C9: timed probing. An entry while OPEN before open_until is refused with
\* CircuitBreakerError, books no call and leaves the state OPEN; an entry or a
\* state read while OPEN at or after open_until moves the breaker to HALF_OPEN;
\* short of force_half_open nothing else takes it from OPEN to HALF_OPEN; and
\* open_until is the time of opening plus reset_timeout for as long as the
\* breaker stays OPEN.
C9_Probing ==
    /\ (cb_last.op = "guard" /\ cb_last.from = "OPEN"
            /\ monotonic < cb.open_until_time)
        => (cb_last.result = "CircuitBreakerError" /\ cb.state = "OPEN")
    /\ (cb_last.op \in Refreshes /\ cb_last.from = "OPEN"
            /\ monotonic >= cb.open_until_time)
        => cb.state = "HALF_OPEN"
    /\ (cb_last.from = "OPEN" /\ cb.state = "HALF_OPEN"
            /\ cb_last.op # "force_half_open")
        => (cb_last.op \in Refreshes /\ monotonic >= cb.open_until_time)
    /\ (cb.state = "OPEN" /\ cb_last.from # "OPEN")
        => cb.open_until_time = monotonic + cb.reset_timeout

C9_Step ==
    /\ (cb.state = "OPEN" /\ cb'.state = "OPEN")
        => cb'.open_until_time = cb.open_until_time
    /\ (cb_last'.op = "guard" /\ cb_last'.result = "CircuitBreakerError")
        => cb'.active_calls = cb.active_calls

C9_TimedProbing == []C9_Probing /\ [][C9_Step]_vars

C9_Witness ==
    /\ cb_last.op = "guard"
    /\ cb_last.from = "OPEN"
    /\ monotonic = cb.open_until_time
    /\ cb.state = "HALF_OPEN"
    /\ cb_last.result = "admitted"

\* C10: closing. In HALF_OPEN the breaker stays HALF_OPEN after each of the
\* first m-1 success exits in a row (m = success_threshold) and is CLOSED at
\* the exit of the m-th.
C10_ClosesAtMthSuccess ==
    /\ success_run >= cb.success_threshold => cb.state = "CLOSED"
    /\ (0 < success_run /\ success_run < cb.success_threshold)
        => cb.state = "HALF_OPEN"

C10_Witness ==
    /\ cb_last.op = "exit_success"
    /\ cb_last.from = "HALF_OPEN"
    /\ cb.state = "CLOSED"
    /\ cb.success_threshold = 2
    /\ success_run = 2

C12_HalfOpenErrorThreshold ==
    /\ (0 < probe_error_run /\ probe_error_run < cb.error_threshold)
        => cb.state = "HALF_OPEN"
    /\ probe_error_run >= cb.error_threshold => cb.state = "OPEN"

Forced == {"FORCED_OPEN", "FORCED_CLOSED"}
Explicit == {"reset", "force_open", "force_closed", "force_half_open"}

\* C13: forced states are sticky. From FORCED_OPEN or FORCED_CLOSED no passage
\* of time, region entry, region exit of any kind, state or metrics read
\* changes the state; only reset and the force_* requests do.
C13_ForcedSticky ==
    (cb_last.from \in Forced /\ cb_last.op \notin Explicit)
        => cb.state = cb_last.from

C13_Witness ==
    /\ cb_last.op = "current_state"
    /\ cb_last.from = "FORCED_OPEN"
    /\ cb.state = "FORCED_OPEN"
    /\ monotonic >= cb.open_until_time
    /\ cb.total_error_count >= cb.error_threshold

\* C14: in FORCED_CLOSED every region entry is permitted, whatever the
\* counters, the time and the number of calls in flight.
C14_ForcedClosedPermits ==
    (cb_last.op = "guard" /\ cb_last.from = "FORCED_CLOSED")
        => cb_last.result = "admitted"

\* C15: in HALF_OPEN a region entry is permitted if and only if active_calls
\* is below half_open_max_concurrency when it is checked; an entry refused
\* raises CircuitBreakerError and books no call.
C15_Step ==
    (cb_last'.op = "guard" /\ cb'.state = "HALF_OPEN")
        => /\ cb_last'.result = "admitted"
                <=> cb.active_calls < cb.half_open_max_concurrency
           /\ cb_last'.result # "admitted"
                => /\ cb_last'.result = "CircuitBreakerError"
                   /\ cb'.active_calls = cb.active_calls
                   /\ in_flight' = in_flight

C15_HalfOpenPermission == [][C15_Step]_vars

C15_Witness ==
    /\ cb_last.op = "guard"
    /\ cb.state = "HALF_OPEN"
    /\ cb_last.result = "CircuitBreakerError"
    /\ cb.half_open_max_concurrency = 2
    /\ cb.active_calls = 2

\* C16: the probe concurrency limit. In every reachable state in which the
\* breaker is HALF_OPEN, the number of guarded regions in flight is at most
\* half_open_max_concurrency.
C16_ProbeLimit ==
    cb.state = "HALF_OPEN" => in_flight <= cb.half_open_max_concurrency

\* C17: active_calls is never negative and always equals the number of
\* guarded regions that were granted entry and have not yet ended, whichever
\* way they end (success, counted error, ignored exception, cancellation) and
\* whatever reset and the force_* requests do in between.
C17_ActiveCalls ==
    /\ cb.active_calls >= 0
    /\ cb.active_calls = in_flight

C17_Witness ==
    /\ cb_last.op = "exit_cancelled"
    /\ in_flight = 1
    /\ cb.active_calls = 1
    /\ cb.state = "FORCED_OPEN"

\* C18: a guarded region that ends with an exception listed in ignore_errors
\* counts as a success: total_success_count and consecutive_success_count go
\* up by one, total_error_count and last_error_info stay as they were and the
\* state does not move to OPEN.
C18_Step ==
    cb_last'.op = "exit_ignored"
        => /\ cb'.total_success_count = cb.total_success_count + 1
           /\ cb'.state = cb.state
                => cb'.consecutive_success_count = cb.consecutive_success_count + 1
           /\ cb'.total_error_count = cb.total_error_count
           /\ cb'.last_error_info = cb.last_error_info
           /\ cb.state # "OPEN" => cb'.state # "OPEN"

C18_IgnoredCountsAsSuccess == [][C18_Step]_vars

\* C19: metrics monotonicity. No operation other than reset makes
\* total_error_count or total_success_count smaller.
C19_Step ==
    cb_last'.op # "reset"
        => /\ cb'.total_error_count >= cb.total_error_count
           /\ cb'.total_success_count >= cb.total_success_count

C19_TotalsMonotone == [][C19_Step]_vars

C19_Witness ==
    /\ cb_last.op = "force_half_open"
    /\ cb_last.from = "OPEN"
    /\ cb.total_error_count >= 1
    /\ cb.total_success_count >= 1

\* C20: reset, called in any state with any counter values, leaves the
\* breaker CLOSED with the four counters at zero and last_error_info cleared.
C20_Reset ==
    cb_last.op = "reset"
        => /\ cb.state = "CLOSED"
           /\ cb.total_error_count = 0
           /\ cb.total_success_count = 0
           /\ cb.consecutive_error_count = 0
           /\ cb.consecutive_success_count = 0
           /\ cb.last_error_info = NoError

C20_Witness ==
    /\ cb_last.op = "reset"
    /\ cb_last.from = "HALF_OPEN"
    /\ prev_runs.success_run >= 1
    /\ monotonic >= 1
    /\ cb.state = "CLOSED"

\* The state each force_* method says it forces the breaker to (force_open:
\* "to the OPEN state", force_closed: "to the CLOSED state", force_half_open:
\* "to the HALF_OPEN state").
Requested(op) ==
    IF op = "force_open" THEN "OPEN"
    ELSE IF op = "force_closed" THEN "CLOSED"
    ELSE "HALF_OPEN"

\* C21: explicit control. From each state, each explicit transition request
\* leaves the breaker in exactly the requested state with both consecutive
\* counters at zero.
C21_ExplicitControl ==
    cb_last.op \in {"force_open", "force_closed", "force_half_open"}
        => /\ cb.state = Requested(cb_last.op)
           /\ cb.consecutive_error_count = 0
           /\ cb.consecutive_success_count = 0

\* C22: a request to open with a custom duration d uses d in place of
\* reset_timeout: entries are refused until d has elapsed since the request,
\* and the first entry or state read at or after that moment moves the
\* breaker to HALF_OPEN.
C22_CustomOpenDuration ==
    /\ (cb_last.op = "guard" /\ cb_last.from = "FORCED_OPEN"
            /\ monotonic < cb.open_until_time)
        => (cb_last.result = "CircuitBreakerError" /\ cb.state = "FORCED_OPEN")
    /\ (cb_last.op \in Refreshes /\ cb_last.from = "FORCED_OPEN"
            /\ monotonic >= cb.open_until_time)
        => cb.state = "HALF_OPEN"

\* The configuration of a breaker: what the constructor's arguments set.
Config(c) ==
    <<c.error_threshold, c.success_threshold, c.reset_timeout,
      c.half_open_max_concurrency, c.consecutive_counts_clear_interval>>

\* C23: the registry of circuit breakers. The first CircuitBreaker(name, ...)
\* for a name creates and stores an instance configured as asked; every later
\* call with that name returns that same instance with its configuration,
\* state and counters as they were, whatever configuration it passes; distinct
\* names have distinct instances.
C23_BreakerRegistry ==
    /\ reg_last.op = "construct"
        => /\ Registered(instances, reg_last.name)
           /\ instances[reg_last.name] = reg_last.returned
           /\ Registered(reg_last.before, reg_last.name)
                => /\ reg_last.returned = reg_last.before[reg_last.name]
                   /\ instances = reg_last.before
           /\ ~Registered(reg_last.before, reg_last.name)
                => /\ Config(reg_last.returned.cb)
                        = <<reg_last.kwargs.error_threshold,
                            reg_last.kwargs.success_threshold, 60, 1, 0>>
                   /\ \A n \in DOMAIN reg_last.before :
                        reg_last.before[n].id # reg_last.returned.id
                   /\ \A n \in DOMAIN reg_last.before :
                        instances[n] = reg_last.before[n]
    /\ \A n \in DOMAIN instances :
        /\ n \in DOMAIN first
        /\ instances[n].id = first[n].id
        /\ Config(instances[n].cb) = Config(first[n].cb)
    /\ \A n, m \in DOMAIN instances : n # m => instances[n].id # instances[m].id

C23_Witness ==
    /\ reg_last.op = "construct"
    /\ Registered(reg_last.before, reg_last.name)
    /\ reg_last.kwargs.error_threshold # reg_last.returned.cb.error_threshold
    /\ reg_last.returned.cb.state = "OPEN"
    /\ reg_last.returned.cb.total_error_count = 2
    /\ Cardinality(DOMAIN instances) = 2

\* C24 as claimed: when a cancellation ends a guarded region, the exit still
\* runs: active_calls goes down by one, the outcome enters the success/error
\* accounting (one of the two totals goes up) and the cancellation reaches
\* the caller.
C24_OriginalStep ==
    cb_last'.op = "exit_cancelled"
        => /\ cb'.active_calls = cb.active_calls - 1
           /\ cb'.total_success_count + cb'.total_error_count
                = cb.total_success_count + cb.total_error_count + 1
           /\ cb_last'.result = "CancelledError"

C24_Step ==
    cb_last'.op = "exit_cancelled"
        => /\ cb'.active_calls = cb.active_calls - 1
           /\ cb' = [cb EXCEPT !.active_calls = @ - 1]
           /\ cb_last'.result = "CancelledError"

Running == {n \in Nodes : node[n].status = "running"}
Leaders == {n \in Running : node[n].is_leader}

\* C25: leader uniqueness. Of two instances running the loop on one name and
\* one backend with renew_interval < lease / 2, never both have is_leader
\* true, and once both have made their first attempt exactly one has.
C25_LeaderUniqueness ==
    /\ Cardinality(Leaders) <= 1
    /\ (Running = Nodes /\ \A n \in Nodes : node[n].attempted)
        => Cardinality(Leaders) = 1

C25_Witness ==
    /\ Running = Nodes
    /\ \A n \in Nodes : node[n].attempted
    /\ Cardinality(Leaders) = 1
    /\ le_now > le_config.lease
    /\ le_last.op = "attempt"
    /\ le_last.result = FALSE

\* C26: leader failover. After the leader's task is cancelled, its release
\* going through or failing, the other instance has is_leader true within
\* retry_interval + lease.
C26_Failover ==
    (/\ cancelled_at >= 0
     /\ \/ le_now > cancelled_at + le_config.retry_interval + le_config.lease
        \/ /\ le_now = cancelled_at + le_config.retry_interval + le_config.lease
           /\ \A n \in Running : node[n].wake > le_now)
        => \A n \in Running : node[n].is_leader

C26_Witness ==
    /\ cancelled_at >= 0
    /\ \E n \in Nodes : node[n].release = "failed"
    /\ le_now > cancelled_at + le_config.retry_interval + le_config.lease
    /\ Running # {}
    /\ \A n \in Running : node[n].is_leader

\* ------------------------------------------------- further claims about the lock backend
\* What the statement of call c answers and leaves when run on table tbl at t.
Replay(tbl, c, t) ==
    IF c.op = "acquire"
        THEN LET r == SQL_ACQUIRE_OR_EXTEND(tbl, c.name, c.token, c.duration, t)
             IN  [table |-> r.table, result |-> Bool(r.returning)]
    ELSE IF c.op = "release"
        THEN LET r == SQL_RELEASE(tbl, c.name, c.token, t)
             IN  [table |-> r.table, result |-> Bool(r.returning)]
    ELSE IF c.op = "locked"
        THEN [table |-> tbl, result |-> Bool(SQL_LOCKED(tbl, c.name, t))]
    ELSE [table |-> tbl, result |-> Bool(SQL_OWNED(tbl, c.name, c.token, t))]

\* What the operations can tell about a name at t.
Observable(tbl, name, t) ==
    [locked |-> SQL_LOCKED(tbl, name, t),
     owned |-> [tok \in Tokens |-> SQL_OWNED(tbl, name, tok, t)],
     acquirable |-> [tok \in Tokens |->
                        SQL_ACQUIRE_OR_EXTEND(tbl, name, tok, 1, t).returning]]

LockOps == {"acquire", "release", "locked", "owned"}

\* The latest call answered and left what it would have with no record stored.
AsIfAbsent ==
    LET r == Replay([table EXCEPT ![last.name] = NoRow], last, now)
    IN  /\ last.result = r.result
        /\ Observable(table, last.name, now) = Observable(r.table, last.name, now)

\* C27 as claimed: expired equals absent. An operation executed at t on a
\* record with expire_at <= t answers and leaves what it would with no record
\* for the name, the instant expire_at = t included.
C27_ExpiredEqualsAbsent ==
    (/\ last.op \in LockOps
     /\ last.result \in {"true", "false"}
     /\ last.before # NoRow
     /\ last.before.expire_at <= now)
        => AsIfAbsent

\* C27 as amended: an operation executed at t on a record with expire_at < t
\* answers and leaves what it would with no record for the name; at the
\* instant expire_at = t the record is still live: locked and owned by its
\* token, releasable by it, and closed to an acquire by another token.
C27_StrictlyExpiredEqualsAbsent ==
    /\ (/\ last.op \in LockOps
        /\ last.result \in {"true", "false"}
        /\ last.before # NoRow
        /\ last.before.expire_at < now)
            => AsIfAbsent
    /\ (/\ last.op \in LockOps
        /\ last.result \in {"true", "false"}
        /\ last.before # NoRow
        /\ last.before.expire_at = now)
            => /\ last.op = "locked" => last.result = "true"
               /\ last.op \in {"owned", "release"}
                    => (last.result = "true" <=> last.token = last.before.token)
               /\ (last.op = "acquire" /\ last.token # last.before.token)
                    => (last.result = "false" /\ table[last.name] = last.before)

C27_Witness ==
    /\ last.op = "release"
    /\ last.result = "false"
    /\ last.before # NoRow
    /\ last.before.token = last.token
    /\ last.before.expire_at < now

\* C28: atomic acquisition. Of two acquires by different tokens racing for a
\* name whose record is absent or expired, the one that runs first returns
\* true and the other returns false, having found the winner's live record
\* and changed nothing; and an acquire that succeeds over another token's
\* record found that record expired.
C28_Race ==
    (/\ last.op = "acquire"
     /\ last.result = "true"
     /\ last.before = NoRow \/ last.before.expire_at < now
     /\ last'.op = "acquire"
     /\ last'.result \in {"true", "false"}
     /\ last'.name = last.name
     /\ last'.token # last.token)
        => /\ last'.result = "false"
           /\ last'.before = table[last.name]
           /\ last'.before.token = last.token
           /\ table' = table

C28_Ordered ==
    (/\ last.op = "acquire"
     /\ last.result = "true"
     /\ last.before # NoRow
     /\ last.before.token # last.token)
        => last.before.expire_at < now

C28_AtomicAcquisition == []C28_Ordered /\ [][C28_Race]_vars

C28_Witness ==
    /\ now = 0
    /\ last.op = "acquire"
    /\ last.result = "false"
    /\ last.before # NoRow
    /\ last.before.token # last.token
    /\ last.before.expire_at = now

\* C29: an acquire, release, locked or owned called on a backend whose
\* teardown has completed (its pool is closed) signals the out-of-context
\* error, as it does before entry.
C29_OutOfContextAfterTeardown ==
    (/\ last.op \in LockOps
     /\ pool[last.backend] \in {"None", "closed"})
        => last.result = "OutOfContextError"

\* C30: no exit path leaves an open pool behind: after an entry that failed,
\* and after every exit, the backend's pool is not open.
C30_PoolClosedOnEveryPath ==
    (\/ last.op = "aenter" /\ last.result # "ok"
     \/ last.op = "aexit")
        => pool[last.backend] # "open"

\* C31: the consecutive counters are mutually reset. After every success exit
\* consecutive_error_count is 0, after every counted error exit
\* consecutive_success_count is 0, and in every reachable state at most one of
\* the two consecutive counters is non-zero.
C31_MutualReset ==
    /\ cb.consecutive_error_count = 0 \/ cb.consecutive_success_count = 0
    /\ cb_last.op = "exit_success" => cb.consecutive_error_count = 0
    /\ cb_last.op = "exit_error" => cb.consecutive_success_count = 0

\* a success exit that followed a run of counted errors in CLOSED
C31_Witness ==
    /\ cb_last.op = "exit_success"
    /\ cb_last.from = "CLOSED"
    /\ prev_runs.error_run > 0
    /\ cb.consecutive_counts_clear_interval = 0
    /\ cb.consecutive_success_count = 1
    /\ cb.consecutive_error_count = 0

\* C32: every state transition clears the consecutive counters. Right after
\* an operation that took the breaker into OPEN, HALF_OPEN or CLOSED from
\* another state, consecutive_error_count and consecutive_success_count are 0.
C32_TransitionClearsCounts ==
    (/\ cb_last.from # cb.state
     /\ cb.state \in {"OPEN", "HALF_OPEN", "CLOSED"})
        => /\ cb.consecutive_error_count = 0
           /\ cb.consecutive_success_count = 0

\* The entries the breaker denies: OPEN before the deadline, FORCED_OPEN, and
\* HALF_OPEN with the probes at capacity.
Denied(c, t) ==
    \/ c.state = "OPEN" /\ t < c.open_until_time
    \/ c.state = "FORCED_OPEN"
    \/ c.state = "HALF_OPEN" /\ c.active_calls >= c.half_open_max_concurrency

\* C33: a denied region entry raises CircuitBreakerError and leaves
\* active_calls, the four counters, last_error and the state unchanged.
C33_Step ==
    (cb_last'.op = "guard" /\ Denied(cb, monotonic))
        => /\ cb_last'.result = "CircuitBreakerError"
           /\ cb'.active_calls = cb.active_calls
           /\ cb'.consecutive_error_count = cb.consecutive_error_count
           /\ cb'.consecutive_success_count = cb.consecutive_success_count
           /\ cb'.total_error_count = cb.total_error_count
           /\ cb'.total_success_count = cb.total_success_count
           /\ cb'.last_error_info = cb.last_error_info
           /\ cb'.state = cb.state

C33_DeniedEntryFrame == [][C33_Step]_vars

\* an entry denied while OPEN before the deadline, with counters to keep
C33_Witness ==
    /\ cb_last.op = "guard"
    /\ cb_last.result = "CircuitBreakerError"
    /\ cb_last.from = "OPEN"
    /\ cb.state = "OPEN"
    /\ monotonic < cb.open_until_time
    /\ cb.consecutive_error_count = 2
    /\ cb.last_error_info # NoError

\* C34: the permission check and the active_calls increment of an entry are
\* one atomic step. An entry admitted into HALF_OPEN saw active_calls below
\* the capacity and raised it by one in the same step, so right after any
\* admission into HALF_OPEN at most half_open_max_concurrency calls are
\* booked: from HALF_OPEN with no active calls at most that many entries are
\* admitted before one of them exits.
C34_Admitted ==
    (/\ cb_last.op = "guard"
     /\ cb_last.result = "admitted"
     /\ cb.state = "HALF_OPEN")
        => /\ cb.active_calls <= cb.half_open_max_concurrency
           /\ in_flight <= cb.half_open_max_concurrency

C34_Step ==
    (cb_last'.op = "guard" /\ cb_last'.result = "admitted")
        => /\ cb'.active_calls = cb.active_calls + 1
           /\ in_flight' = in_flight + 1
           /\ cb'.state = "HALF_OPEN"
                => cb.active_calls < cb.half_open_max_concurrency

C34_AtomicAdmission == []C34_Admitted /\ [][C34_Step]_vars

\* the second of two entries admitted into HALF_OPEN with capacity 2, none
\* of them having exited
C34_Witness ==
    /\ cb_last.op = "guard"
    /\ cb_last.result = "admitted"
    /\ cb_last.from = "HALF_OPEN"
    /\ cb.state = "HALF_OPEN"
    /\ cb.half_open_max_concurrency = 2
    /\ cb.active_calls = 2
    /\ in_flight = 2

\* C35: the liveness test of acquire and that of locked, owned and release
\* partition time consistently. For every stored record and every time, an
\* acquire with another token replaces the record exactly when locked(name)
\* at that instant is false, and the holder's owned and release answer as
\* locked does: no record is at once reported live and stealable, or neither.
C35_Stored ==
    \A n \in Names :
        table[n] # NoRow =>
            /\ \A token \in Tokens \ {table[n].token}, d \in Durations :
                LET r == SQL_ACQUIRE_OR_EXTEND(table, n, token, d, now)
                IN  /\ r.returning <=> ~SQL_LOCKED(table, n, now)
                    /\ r.returning <=> r.table[n].token = token
            /\ SQL_OWNED(table, n, table[n].token, now) <=> SQL_LOCKED(table, n, now)
            /\ SQL_RELEASE(table, n, table[n].token, now).returning
                    <=> SQL_LOCKED(table, n, now)

\* the same of the acquire that ran last, against the record it found
C35_Acted ==
    (/\ Executed("acquire")
     /\ last.before # NoRow
     /\ last.before.token # last.token)
        => (last.result = "true"
                <=> ~SQL_LOCKED([table EXCEPT ![last.name] = last.before],
                                last.name, now))

C35_ConsistentPartition == C35_Stored /\ C35_Acted

\* a record taken over by another token one tick after its last live instant
C35_Witness ==
    /\ Executed("acquire")
    /\ last.result = "true"
    /\ last.before # NoRow
    /\ last.before.token # last.token
    /\ last.before.expire_at + 1 = now
    /\ table[last.name].token = last.token

\* C36: no state persists with its exit threshold already met. After every
\* complete operation, CLOSED implies consecutive_error_count <
\* error_threshold and HALF_OPEN implies consecutive_success_count <
\* success_threshold.
C36_ThresholdNotMet ==
    /\ cb.state = "CLOSED" => cb.consecutive_error_count < cb.error_threshold
    /\ cb.state = "HALF_OPEN"
            => cb.consecutive_success_count < cb.success_threshold

\* a probe that succeeded one short of the success threshold
C36_Witness ==
    /\ cb_last.op = "exit_success"
    /\ cb_last.from = "HALF_OPEN"
    /\ cb.state = "HALF_OPEN"
    /\ cb.success_threshold = 2
    /\ cb.consecutive_success_count = 1

ExitFrame(c) ==
    [c EXCEPT !.consecutive_error_count = 0,
              !.consecutive_success_count = 0,
              !.total_error_count = 0,
              !.total_success_count = 0,
              !.last_error_info = NoError,
              !.active_calls = 0]

\* C38: a guarded region admitted earlier that exits while the breaker is
\* OPEN, FORCED_OPEN or FORCED_CLOSED updates only the counters, last_error
\* and active_calls: the state and open_until are unchanged, so a late failure
\* neither reopens the breaker nor extends the open period.
C38_Step ==
    (/\ cb_last'.op \in {"exit_success", "exit_error"}
     /\ cb.state \in {"OPEN", "FORCED_OPEN", "FORCED_CLOSED"})
        => /\ cb'.state = cb.state
           /\ cb'.open_until_time = cb.open_until_time
           /\ ExitFrame(cb') = ExitFrame(cb)
           /\ cb'.active_calls = cb.active_calls - 1
           /\ cb_last'.op = "exit_error"
                => /\ cb'.total_error_count = cb.total_error_count + 1
                   /\ cb'.consecutive_error_count = cb.consecutive_error_count + 1
           /\ cb_last'.op = "exit_success"
                => /\ cb'.total_success_count = cb.total_success_count + 1
                   /\ cb'.consecutive_success_count = cb.consecutive_success_count + 1

C38_LateExitFrame == [][C38_Step]_vars

\* a failure that arrives while OPEN, at or after the deadline set at opening
C38_Witness ==
    /\ cb_last.op = "exit_error"
    /\ cb_last.from = "OPEN"
    /\ cb.state = "OPEN"
    /\ monotonic >= cb.open_until_time
    /\ cb.consecutive_error_count >= 2

\* C39: periodic clearing. With consecutive_counts_clear_interval > 0, a
\* refresh (region entry or state read) made while CLOSED at or after the
\* scheduled clear time sets both consecutive counters to 0 and schedules the
\* next clear at now + interval, leaving the state CLOSED and the totals as
\* they were; a refresh made while CLOSED before that time, or with an
\* interval <= 0, or in another state that it does not leave, clears nothing
\* and reschedules nothing.
C39_Step ==
    LET due == /\ cb.consecutive_counts_clear_interval > 0
               /\ cb.next_consecutive_counts_clear_time <= monotonic
        kept == /\ cb'.consecutive_error_count = cb.consecutive_error_count
                /\ cb'.consecutive_success_count = cb.consecutive_success_count
                /\ cb'.next_consecutive_counts_clear_time
                        = cb.next_consecutive_counts_clear_time
    IN  cb_last'.op \in Refreshes
            => /\ (cb.state = "CLOSED" /\ due)
                    => /\ cb'.consecutive_error_count = 0
                       /\ cb'.consecutive_success_count = 0
                       /\ cb'.next_consecutive_counts_clear_time
                            = monotonic + cb.consecutive_counts_clear_interval
               /\ (cb.state = "CLOSED" /\ ~due) => kept
               /\ (cb.state # "CLOSED" /\ cb'.state = cb.state) => kept
               /\ cb.state = "CLOSED" => cb'.state = "CLOSED"
               /\ cb'.total_error_count = cb.total_error_count
               /\ cb'.total_success_count = cb.total_success_count

C39_PeriodicClearing == [][C39_Step]_vars

\* a state read in CLOSED at the scheduled time that cleared a run of errors
C39_Witness ==
    /\ cb_last.op = "current_state"
    /\ cb_last.from = "CLOSED"
    /\ cb.state = "CLOSED"
    /\ prev_runs.error_run_since_clear > 0
    /\ error_run_since_clear = 0
    /\ cb.consecutive_error_count = 0
    /\ cb.total_error_count > 0
    /\ cb.next_consecutive_counts_clear_time
            = monotonic + cb.consecutive_counts_clear_interval

\* C40: recovery liveness. With no explicit request, time advancing, entries
\* being attempted and the calls admitted ending with success from some point
\* on, a breaker that is OPEN eventually is HALF_OPEN, and a breaker that is
\* HALF_OPEN eventually is CLOSED: OPEN is never permanent.
C40_RecoveryLiveness ==
    /\ (cb.state = "OPEN") ~> (cb.state = "HALF_OPEN")
    /\ (cb.state = "HALF_OPEN") ~> (cb.state = "CLOSED")

\* the breaker closed by its probes after it had opened on errors and waited
\* out its reset timeout
C40_Witness ==
    /\ cb_last.op = "exit_success"
    /\ cb_last.from = "HALF_OPEN"
    /\ cb.state = "CLOSED"
    /\ cb.total_error_count >= cb.error_threshold
    /\ monotonic >= cb.open_until_time
    /\ cb.open_until_time >= cb.reset_timeout
    /\ cb.total_success_count >= cb.success_threshold

====
